---- MODULE Spec2Model ----
(***************************************************************************)
(* A model of the package browser of src/src/main.rs: the catalog          *)
(* (PackageList), its loading from an external listing command, the       *)
(* navigation of the selection, the redraw with its detail lookup, and     *)
(* the interaction loop (App::run).                                        *)
(*                                                                         *)
(* Text is a sequence of one-character strings, so that the splitting and  *)
(* searching the parsers do is computed, not assumed.  A byte that is not  *)
(* valid UTF-8 is the token "xFF"; decoding turns it into "uFFFD".         *)
(* An Option is a sequence of length at most one: None is << >> and        *)
(* Some(i) is <<i>>.                                                       *)
(***************************************************************************)
EXTENDS Integers, Sequences, FiniteSets, TLC

\* The longest listing output the environment produces, in lines.
MaxLines == 5

None == <<>>
Some(i) == <<i>>

\* usize::saturating_sub
saturating_sub(a, b) == IF a >= b THEN a - b ELSE 0

(***************************************************************************)
(* The text functions of the standard library the parsers use.            *)
(***************************************************************************)

\* String::from_utf8_lossy: an invalid byte becomes U+FFFD, the rest is kept.
from_utf8_lossy(bytes) ==
    [k \in 1..Len(bytes) |-> IF bytes[k] = "xFF" THEN "uFFFD" ELSE bytes[k]]

\* The index of the first occurrence of character c in s, 0 when there is none.
RECURSIVE find(_, _, _)
find(s, c, from) ==
    IF from > Len(s) THEN 0
    ELSE IF s[from] = c THEN from
    ELSE find(s, c, from + 1)

\* str::split(char): the segments between the occurrences of sep; a text
\* without sep, the empty one included, is one segment.
RECURSIVE split(_, _)
split(s, sep) ==
    LET k == find(s, sep, 1)
    IN  IF k = 0 THEN <<s>>
        ELSE <<SubSeq(s, 1, k - 1)>> \o split(SubSeq(s, k + 1, Len(s)), sep)

\* char::is_whitespace, on the characters of the model's alphabet.
is_whitespace(c) == c \in {" ", "\t", "\n", "\r"}

\* str::split_whitespace: the maximal runs of non-whitespace characters.
RECURSIVE split_whitespace(_)
split_whitespace(s) ==
    IF s = <<>> THEN <<>>
    ELSE IF is_whitespace(s[1]) THEN split_whitespace(Tail(s))
    ELSE LET ends == {k \in 1..Len(s) : is_whitespace(s[k])}
             stop == IF ends = {} THEN Len(s) + 1
                     ELSE CHOOSE k \in ends : \A j \in ends : k <= j
         IN  <<SubSeq(s, 1, stop - 1)>>
             \o split_whitespace(SubSeq(s, stop, Len(s)))

\* str::contains(&str): pat occurs in s as a substring.
contains(s, pat) ==
    \E k \in 1..(Len(s) - Len(pat) + 1) : SubSeq(s, k, k + Len(pat) - 1) = pat

\* str::lines: split at "\n", a final empty segment dropped (so the empty text
\* has no line and a final newline ends the last line), and one trailing "\r"
\* stripped from each line.
lines(s) ==
    LET segs == split(s, "\n")
        kept == IF segs[Len(segs)] = <<>> THEN SubSeq(segs, 1, Len(segs) - 1)
                ELSE segs
        strip(l) == IF l # <<>> /\ l[Len(l)] = "\r" THEN SubSeq(l, 1, Len(l) - 1)
                    ELSE l
    IN  [k \in 1..Len(kept) |-> strip(kept[k])]

\* The literals of the Pip branch.
PackageWord == <<"P","a","c","k","a","g","e">>
Dashes == <<"-","-","-">>

(***************************************************************************)
(* PackageList::load, the parsing of one line for each package manager.   *)
(***************************************************************************)
Package(n, v) == [name |-> n, version |-> v]

\* The Pkg parser cutting at the first '/' only (splitn(2, '/')).
parse_pkg_rest_of_line(line) ==
    LET k == find(line, "/", 1)
    IN  IF k > 0
        THEN Some(Package(SubSeq(line, 1, k - 1), SubSeq(line, k + 1, Len(line))))
        ELSE None

parse_pkg(line) ==
    LET parts == split(line, "/")
    IN  IF Len(parts) >= 2 THEN Some(Package(parts[1], parts[2])) ELSE None

parse_apt(line) ==
    LET parts == split(line, "/")
    IN  IF Len(parts) >= 2
        THEN LET version_parts == split(parts[2], " ")
             IN  IF Len(version_parts) >= 1
                 THEN Some(Package(parts[1], version_parts[1]))
                 ELSE None
        ELSE None

\* The Pip parser skipping the header row only.
parse_pip_header_only(line) ==
    IF contains(line, PackageWord) THEN None
    ELSE LET parts == split_whitespace(line)
         IN  IF Len(parts) >= 2 THEN Some(Package(parts[1], parts[2])) ELSE None

parse_pip(line) ==
    IF contains(line, PackageWord) \/ contains(line, Dashes) THEN None
    ELSE LET parts == split_whitespace(line)
         IN  IF Len(parts) >= 2 THEN Some(Package(parts[1], parts[2])) ELSE None

parse_line(pm, line) ==
    CASE pm = "Pkg" -> parse_pkg(line)
      [] pm = "Apt" -> parse_apt(line)
      [] pm = "Pip" -> parse_pip(line)

\* stdout.lines().filter_map(..).collect(): the packages of the lines that
\* parse, in the order of the lines.
RECURSIVE parse_lines(_, _)
parse_lines(pm, ls) ==
    IF ls = <<>> THEN <<>>
    ELSE parse_line(pm, ls[1]) \o parse_lines(pm, Tail(ls))

\* The program and arguments load runs for a package manager.
list_command(pm) ==
    CASE pm = "Pkg" -> <<"pkg", "list-installed">>
      [] pm = "Apt" -> <<"apt", "list", "--installed">>
      [] pm = "Pip" -> <<"pip", "list">>

\* The message of the expect() that unwraps the result of the listing command.
expect_message(pm) ==
    CASE pm = "Pkg" -> "Failed to execute pkg list-installed"
      [] pm = "Apt" -> "Failed to execute apt list --installed"
      [] pm = "Pip" -> "Failed to execute pip list"

\* load with the launch failure masked: an empty catalog instead of the panic.
load_masking_failure(pm, res) ==
    LET its == IF res.ok
               THEN parse_lines(pm, lines(from_utf8_lossy(res.stdout)))
               ELSE <<>>
    IN  [panic |-> "", items |-> its,
         state |-> IF its # <<>> THEN Some(0) ELSE None,
         package_manager |-> pm]

\* PackageList::load, given the result res of Command::output(): a record
\* [ok, stdout].  A command that could not be launched panics in expect(), and
\* no PackageList is built (the other fields of the record are then unused).
load(pm, res) ==
    IF ~res.ok
    THEN [panic |-> expect_message(pm), items |-> <<>>, state |-> None,
          package_manager |-> pm]
    ELSE LET stdout == from_utf8_lossy(res.stdout)
             its == parse_lines(pm, lines(stdout))
         IN  [panic |-> "", items |-> its,
              state |-> IF its # <<>> THEN Some(0) ELSE None,
              package_manager |-> pm]

\* The match with its last arm going back to Apt: a cycle of two.
new_manager_back_to_apt(pm) ==
    CASE pm = "Pkg" -> "Apt"
      [] pm = "Apt" -> "Pip"
      [] pm = "Pip" -> "Apt"

\* The match of toggle_package_manager.
new_manager(pm) ==
    CASE pm = "Pkg" -> "Apt"
      [] pm = "Apt" -> "Pip"
      [] pm = "Pip" -> "Pkg"

(***************************************************************************)
(* The navigation of the selection: each gives the new selection.         *)
(***************************************************************************)
\* select_next comparing with > : it steps beyond the last index.
select_next_beyond_last(its, sel) ==
    LET i == IF sel # None
             THEN IF sel[1] > saturating_sub(Len(its), 1) THEN 0 ELSE sel[1] + 1
             ELSE 0
    IN  Some(i)

\* select_next that stays on the last index instead of wrapping.
select_next_clamped(its, sel) ==
    LET i == IF sel # None
             THEN IF sel[1] >= saturating_sub(Len(its), 1) THEN sel[1]
                  ELSE sel[1] + 1
             ELSE 0
    IN  Some(i)

\* select_next that wraps to index 1.
select_next_wrap_to_one(its, sel) ==
    LET i == IF sel # None
             THEN IF sel[1] >= saturating_sub(Len(its), 1) THEN 1 ELSE sel[1] + 1
             ELSE 0
    IN  Some(i)

select_next(its, sel) ==
    LET i == IF sel # None
             THEN IF sel[1] >= saturating_sub(Len(its), 1) THEN 0 ELSE sel[1] + 1
             ELSE 0
    IN  Some(i)

\* select_previous that wraps to len instead of len - 1.
select_previous_wrap_to_len(its, sel) ==
    LET i == IF sel # None
             THEN IF sel[1] = 0 THEN Len(its) ELSE sel[1] - 1
             ELSE 0
    IN  Some(i)

select_previous(its, sel) ==
    LET i == IF sel # None
             THEN IF sel[1] = 0 THEN saturating_sub(Len(its), 1) ELSE sel[1] - 1
             ELSE 0
    IN  Some(i)

select_first(its, sel) == IF its # <<>> THEN Some(0) ELSE sel

\* select_last that selects len instead of len - 1.
select_last_len(its, sel) == IF its # <<>> THEN Some(Len(its)) ELSE sel

select_last(its, sel) ==
    IF its # <<>> THEN Some(saturating_sub(Len(its), 1)) ELSE sel

(***************************************************************************)
(* The redraw.                                                             *)
(***************************************************************************)
NoPackageSelected == <<"N","o"," ","p","a","c","k","a","g","e"," ","s","e","l","e","c","t","e","d">>
NoDetailsAvailable == <<"N","o"," ","d","e","t","a","i","l","s"," ","a","v","a","i","l","a","b","l","e">>
FailedToFetch == <<"F","a","i","l","e","d"," ","t","o"," ","f","e","t","c","h"," ","p","a","c","k","a","g","e"," ","d","e","t","a","i","l","s">>

\* The panic of the indexing items[i] with i out of range.
IndexOutOfBounds == "index out of bounds"

\* The program and arguments fetch_package_details runs.
show_command(pm, package_name) ==
    CASE pm = "Pkg" -> <<"pkg", "show", package_name>>
      [] pm = "Apt" -> <<"apt", "show", package_name>>
      [] pm = "Pip" -> <<"pip", "show", package_name>>

\* fetch_package_details without the test for an empty stdout.
fetch_package_details_no_empty_test(pm, package_name, res) ==
    IF res.ok THEN from_utf8_lossy(res.stdout) ELSE FailedToFetch

\* PackageList::fetch_package_details, given the result res of the show
\* command's Command::output().
fetch_package_details(pm, package_name, res) ==
    IF res.ok
    THEN LET stdout == from_utf8_lossy(res.stdout)
         IN  IF stdout = <<>> THEN NoDetailsAvailable ELSE stdout
    ELSE FailedToFetch

\* What f.render_stateful_widget(list, .., &mut state) does to the selection.
\* The widget is the ratatui library's, whose version the repository's source
\* does not fix: a List leaves the selection as it is (clamps = FALSE), or, in
\* the releases that bring a selection back into range, sets it to None for an
\* empty list and to the last index when it is beyond it (clamps = TRUE).
render_stateful_widget(its, sel, clamps) ==
    IF ~clamps THEN sel
    ELSE IF its = <<>> THEN None
    ELSE IF sel # None /\ sel[1] >= Len(its) THEN Some(saturating_sub(Len(its), 1))
    ELSE sel

\* An external command as spawned: its program and arguments, and the result
\* of its Command::output().
Spawn(argv, res) == [argv |-> argv, result |-> res]

\* ui that fetches the details of an empty name when nothing is selected.
ui_fetching_without_selection(its, sel, pm, res) ==
    IF sel # None
    THEN IF sel[1] < Len(its)
         THEN [panic |-> "",
               detail |-> fetch_package_details(pm, its[sel[1] + 1].name, res),
               spawned |-> <<Spawn(show_command(pm, its[sel[1] + 1].name), res)>>]
         ELSE [panic |-> IndexOutOfBounds, detail |-> <<>>, spawned |-> <<>>]
    ELSE [panic |-> "",
          detail |-> fetch_package_details(pm, <<>>, res),
          spawned |-> <<Spawn(show_command(pm, <<>>), res)>>]

\* The detail of App::ui for the selection sel left by the list's render, and
\* the commands spawned for it: items[i] panics when i is out of range, and
\* fetch_package_details runs one show command, whose result is res.
ui(its, sel, pm, res) ==
    IF sel # None
    THEN IF sel[1] < Len(its)
         THEN [panic |-> "",
               detail |-> fetch_package_details(pm, its[sel[1] + 1].name, res),
               spawned |-> <<Spawn(show_command(pm, its[sel[1] + 1].name), res)>>]
         ELSE [panic |-> IndexOutOfBounds, detail |-> <<>>, spawned |-> <<>>]
    ELSE [panic |-> "", detail |-> NoPackageSelected, spawned |-> <<>>]

(***************************************************************************)
(* The environment: what the external commands print, and the events the  *)
(* terminal delivers.                                                      *)
(***************************************************************************)

\* The lines a listing prints.  Every parser accepts PackageLine, which holds
\* a '/' and two fields.  Only the Pip parser accepts PlainLine, which holds no
\* '/' and a byte that is not valid UTF-8.
PackageLine == <<"a","/","1"," ","x","\n">>
PlainLine == <<"c"," ","xFF","\n">>

\* k times PackageLine.
RECURSIVE package_lines(_)
package_lines(k) == IF k = 0 THEN <<>> ELSE PackageLine \o package_lines(k - 1)

\* The listing outputs of at most n lines: package lines, after a plain line
\* or not.
texts(n) ==
    {package_lines(k) : k \in 0..n}
    \cup {PlainLine \o package_lines(k - 1) : k \in 1..n}

\* The results of Command::output() for a listing: the command could not be
\* launched, or it ran and printed a text.
ListOutputs ==
    {[ok |-> FALSE, stdout |-> <<>>]}
    \cup {[ok |-> TRUE, stdout |-> t] : t \in texts(MaxLines)}

\* The results of Command::output() for a show command.
ShowOutputs ==
    { [ok |-> FALSE, stdout |-> <<>>],
      [ok |-> TRUE, stdout |-> <<>>],
      [ok |-> TRUE, stdout |-> <<"D","xFF">>] }

\* The events event::read() returns: a key with its code and kind, or another
\* event (a resize); the code "x" stands for every key the match does not name.
\* Every key is pressed; releases and repeats come for three of the keys.
KeyCodes ==
    {"q", "Esc", "Down", "j", "Up", "k", "Home", "g", "End", "G", "Tab", "x"}

Events ==
    [type : {"Key"}, code : KeyCodes, kind : {"Press"}]
    \cup [type : {"Key"}, code : {"q", "j", "Tab"}, kind : {"Release", "Repeat"}]
    \cup {[type |-> "Resize", code |-> "x", kind |-> "Press"]}

\* The match without the test of key.kind: releases and repeats act too.
arm_of_any_kind(ev) ==
    IF ev.type = "Key"
    THEN CASE ev.code \in {"q", "Esc"} -> "quit"
           [] ev.code \in {"Down", "j"} -> "next"
           [] ev.code \in {"Up", "k"} -> "previous"
           [] ev.code \in {"Home", "g"} -> "first"
           [] ev.code \in {"End", "G"} -> "last"
           [] ev.code = "Tab" -> "toggle"
           [] OTHER -> "none"
    ELSE "none"

\* The arm of the match of App::run an event takes ("none": no arm's body
\* changes anything).
arm(ev) ==
    IF ev.type = "Key" /\ ev.kind = "Press"
    THEN CASE ev.code \in {"q", "Esc"} -> "quit"
           [] ev.code \in {"Down", "j"} -> "next"
           [] ev.code \in {"Up", "k"} -> "previous"
           [] ev.code \in {"Home", "g"} -> "first"
           [] ev.code \in {"End", "G"} -> "last"
           [] ev.code = "Tab" -> "toggle"
           [] OTHER -> "none"
    ELSE "none"

\* The arms of the match the events reach.
Arms == {arm(ev) : ev \in Events}

(***************************************************************************)
(* The state.                                                              *)
(*   items, state, package_manager   the PackageList (state is the        *)
(*                      selection of its ListState)                        *)
(*   should_exit        App::should_exit                                   *)
(*   pc                 where the process is: "draw" (about to redraw),   *)
(*                      "read" (waiting for an event), "exited" (run      *)
(*                      returned Ok), "io_error" (run returned an Err),   *)
(*                      "panicked"                                         *)
(*   panic              the message of the panic, "" when there is none   *)
(*   command, output    the listing command load ran last and its result  *)
(*   detail             the text of the details pane drawn last           *)
(*   last_ops           history: the catalog operation the loop called    *)
(*                      last with the selection before it, after the one  *)
(*                      called before it when the two are select_next and *)
(*                      select_previous, in either order                   *)
(*   next_run           history: the current run of consecutive           *)
(*                      select_next calls, its length and the selection   *)
(*                      before its first call                              *)
(*   pm_hist            history: the package manager before each of the   *)
(*                      last three toggles                                 *)
(*   event              history: the event the last step read and         *)
(*                      handled, NoEvent when it read none                 *)
(*   spawned            history: the external commands the last step      *)
(*                      spawned, each with its result                      *)
(*   redraws            history: the redraws since the loop last called a *)
(*                      catalog operation, counted up to two               *)
(*   parsing            the input and the result of a parser applied on   *)
(*                      its own (SpecParse); NotParsing in the program    *)
(***************************************************************************)
VARIABLES items, state, package_manager, should_exit, pc, panic,
          command, output, detail, last_ops, next_run, pm_hist,
          event, spawned, redraws, parsing

vars == <<items, state, package_manager, should_exit, pc, panic,
          command, output, detail, last_ops, next_run, pm_hist,
          event, spawned, redraws, parsing>>

catalog == <<items, state, package_manager>>
history == <<last_ops, next_run, pm_hist>>

NoEvent == [type |-> "None", code |-> "x", kind |-> "Press"]
NotParsing == [stage |-> "off", pm |-> "Pkg", input |-> <<>>, out |-> <<>>]

NoRun == [start |-> None, count |-> 0]

\* The operations that undo each other.
Opposite(a, b) == {a, b} = {"next", "previous"}

\* The last k elements of a sequence.
last_of(s, k) == IF Len(s) <= k THEN s ELSE SubSeq(s, Len(s) - k + 1, Len(s))

\* App::new: the catalog of the default package manager.  When the listing
\* command cannot be launched the process panics before there is a catalog.
Init ==
    \E res \in ListOutputs :
        LET l == load("Pkg", res)
        IN  /\ command = list_command("Pkg")
            /\ output = res
            /\ items = l.items
            /\ state = l.state
            /\ package_manager = l.package_manager
            /\ should_exit = FALSE
            /\ panic = l.panic
            /\ pc = IF l.panic = "" THEN "draw" ELSE "panicked"
            /\ detail = <<>>
            /\ last_ops = <<>>
            /\ next_run = NoRun
            /\ pm_hist = <<>>
            /\ event = NoEvent
            /\ spawned = <<Spawn(list_command("Pkg"), res)>>
            /\ redraws = 0
            /\ parsing = NotParsing

\* A redraw that keeps the details drawn last, and spawns nothing, when no
\* catalog operation was called since the last redraw.
Draw_memoized ==
    /\ pc = "draw"
    /\ \E clamps \in BOOLEAN, res \in ShowOutputs :
        LET sel == render_stateful_widget(items, state, clamps)
            r == ui(items, sel, package_manager, res)
        IN  /\ state' = sel
            /\ IF r.panic = ""
               THEN /\ pc' = "read"
                    /\ detail' = IF redraws >= 1 THEN detail ELSE r.detail
                    /\ panic' = panic
               ELSE /\ pc' = "panicked"
                    /\ detail' = detail
                    /\ panic' = r.panic
            /\ spawned' = IF redraws >= 1 THEN <<>> ELSE r.spawned
    /\ event' = NoEvent
    /\ redraws' = IF redraws < 2 THEN redraws + 1 ELSE redraws
    /\ UNCHANGED <<items, package_manager, should_exit, command, output, history,
                   parsing>>

\* terminal.draw(|f| self.ui(f)): the list is rendered, which may move the
\* selection, and the details of the selected package are fetched and shown.
Draw ==
    /\ pc = "draw"
    /\ \E clamps \in BOOLEAN, res \in ShowOutputs :
        LET sel == render_stateful_widget(items, state, clamps)
            r == ui(items, sel, package_manager, res)
        IN  /\ state' = sel
            /\ IF r.panic = ""
               THEN /\ pc' = "read"
                    /\ detail' = r.detail
                    /\ panic' = panic
               ELSE /\ pc' = "panicked"
                    /\ detail' = detail
                    /\ panic' = r.panic
            /\ spawned' = r.spawned
    /\ event' = NoEvent
    /\ redraws' = IF redraws < 2 THEN redraws + 1 ELSE redraws
    /\ UNCHANGED <<items, package_manager, should_exit, command, output, history,
                   parsing>>

\* terminal.draw(..)? : the terminal fails and run returns the error.
DrawError ==
    /\ pc = "draw"
    /\ pc' = "io_error"
    /\ event' = NoEvent
    /\ spawned' = <<>>
    /\ UNCHANGED <<catalog, should_exit, panic, command, output, detail, history,
                   redraws, parsing>>

\* event::read()? : reading the event fails and run returns the error.
ReadError ==
    /\ pc = "read"
    /\ pc' = "io_error"
    /\ event' = NoEvent
    /\ spawned' = <<>>
    /\ UNCHANGED <<catalog, should_exit, panic, command, output, detail, history,
                   redraws, parsing>>

\* A loop that never tests should_exit.
after_event_never_exits(exit) == "draw"

\* The end of the loop body: run returns when should_exit is set.
after_event(exit) == IF exit THEN "exited" ELSE "draw"

\* The history after the catalog operation op, called with the selection
\* state; after_first tells that the operation called before it was
\* select_first.
Record(op) ==
    /\ last_ops' =
         LET this == [op |-> op, before |-> state,
                      after_first |-> last_ops # <<>>
                                      /\ last_ops[Len(last_ops)].op = "first"]
         IN  IF last_ops # <<>> /\ Opposite(last_ops[Len(last_ops)].op, op)
             THEN <<last_ops[Len(last_ops)], this>>
             ELSE <<this>>
    /\ next_run' =
         IF op = "next"
         THEN IF next_run.count = 0 \/ next_run.count >= Len(items)
              THEN [start |-> state, count |-> 1]
              ELSE [start |-> next_run.start, count |-> next_run.count + 1]
         ELSE NoRun
    /\ redraws' = 0

\* KeyCode::Char('q') | KeyCode::Esc
Quit ==
    /\ pc = "read"
    /\ \E ev \in Events : arm(ev) = "quit" /\ event' = ev
    /\ should_exit' = TRUE
    /\ pc' = after_event(should_exit')
    /\ spawned' = <<>>
    /\ UNCHANGED <<catalog, panic, command, output, detail, history, redraws,
                   parsing>>

\* KeyCode::Down | KeyCode::Char('j')
SelectNext ==
    /\ pc = "read"
    /\ \E ev \in Events : arm(ev) = "next" /\ event' = ev
    /\ state' = select_next(items, state)
    /\ Record("next")
    /\ pc' = after_event(should_exit)
    /\ spawned' = <<>>
    /\ UNCHANGED <<items, package_manager, should_exit, panic, command, output,
                   detail, pm_hist, parsing>>

\* KeyCode::Up | KeyCode::Char('k')
SelectPrevious ==
    /\ pc = "read"
    /\ \E ev \in Events : arm(ev) = "previous" /\ event' = ev
    /\ state' = select_previous(items, state)
    /\ Record("previous")
    /\ pc' = after_event(should_exit)
    /\ spawned' = <<>>
    /\ UNCHANGED <<items, package_manager, should_exit, panic, command, output,
                   detail, pm_hist, parsing>>

\* KeyCode::Home | KeyCode::Char('g')
SelectFirst ==
    /\ pc = "read"
    /\ \E ev \in Events : arm(ev) = "first" /\ event' = ev
    /\ state' = select_first(items, state)
    /\ Record("first")
    /\ pc' = after_event(should_exit)
    /\ spawned' = <<>>
    /\ UNCHANGED <<items, package_manager, should_exit, panic, command, output,
                   detail, pm_hist, parsing>>

\* KeyCode::End | KeyCode::Char('G')
SelectLast ==
    /\ pc = "read"
    /\ \E ev \in Events : arm(ev) = "last" /\ event' = ev
    /\ state' = select_last(items, state)
    /\ Record("last")
    /\ pc' = after_event(should_exit)
    /\ spawned' = <<>>
    /\ UNCHANGED <<items, package_manager, should_exit, panic, command, output,
                   detail, pm_hist, parsing>>

\* A toggle that replaces items and package_manager and keeps the selection.
Toggle_keeping_selection ==
    /\ pc = "read"
    /\ \E ev \in Events : arm(ev) = "toggle" /\ event' = ev
    /\ \E res \in ListOutputs :
        LET l == load(new_manager(package_manager), res)
        IN  /\ command' = list_command(new_manager(package_manager))
            /\ output' = res
            /\ spawned' = <<Spawn(list_command(new_manager(package_manager)), res)>>
            /\ IF l.panic = ""
               THEN /\ items' = l.items
                    /\ state' = state
                    /\ package_manager' = l.package_manager
                    /\ Record("toggle")
                    /\ pm_hist' = last_of(Append(pm_hist, package_manager), 3)
                    /\ pc' = after_event(should_exit)
                    /\ panic' = panic
               ELSE /\ pc' = "panicked"
                    /\ panic' = l.panic
                    /\ UNCHANGED <<catalog, history, redraws>>
    /\ UNCHANGED <<should_exit, detail, parsing>>

\* KeyCode::Tab: toggle_package_manager.  *self is assigned only when load
\* returns; when load panics the catalog is as it was and the process ends.
Toggle ==
    /\ pc = "read"
    /\ \E ev \in Events : arm(ev) = "toggle" /\ event' = ev
    /\ \E res \in ListOutputs :
        LET l == load(new_manager(package_manager), res)
        IN  /\ command' = list_command(new_manager(package_manager))
            /\ output' = res
            /\ spawned' = <<Spawn(list_command(new_manager(package_manager)), res)>>
            /\ IF l.panic = ""
               THEN /\ items' = l.items
                    /\ state' = l.state
                    /\ package_manager' = l.package_manager
                    /\ Record("toggle")
                    /\ pm_hist' = last_of(Append(pm_hist, package_manager), 3)
                    /\ pc' = after_event(should_exit)
                    /\ panic' = panic
               ELSE /\ pc' = "panicked"
                    /\ panic' = l.panic
                    /\ UNCHANGED <<catalog, history, redraws>>
    /\ UNCHANGED <<should_exit, detail, parsing>>

\* Any other event: a key the match does not name, a key that is not a press,
\* an event that is not a key.
Ignore ==
    /\ pc = "read"
    /\ \E ev \in Events : arm(ev) = "none" /\ event' = ev
    /\ pc' = after_event(should_exit)
    /\ spawned' = <<>>
    /\ UNCHANGED <<catalog, should_exit, panic, command, output, detail, history,
                   redraws, parsing>>

Next ==
    \/ Draw
    \/ DrawError
    \/ ReadError
    \/ Quit
    \/ SelectNext
    \/ SelectPrevious
    \/ SelectFirst
    \/ SelectLast
    \/ Toggle
    \/ Ignore

Spec == Init /\ [][Next]_vars

(***************************************************************************)
(* The parsers on their own: a parser is applied to a listing output drawn *)
(* from a bounded set, outside the program.                                *)
(***************************************************************************)

\* The longest line made of the characters of ParseAlphabet.
MaxLineLen == 3

\* The longest listing made of the sample lines, in lines.
MaxTextLines == 3

ParseAlphabet == {"a", "/", " ", "-"}

\* The lines of at most n characters of ParseAlphabet.
RECURSIVE short_lines(_)
short_lines(n) ==
    IF n = 0 THEN {<<>>}
    ELSE short_lines(n - 1)
         \cup {Append(l, c) : l \in short_lines(n - 1), c \in ParseAlphabet}

\* Lines as the package managers print them.
AptVimLine ==
    <<"v","i","m","/","s","t","a","b","l","e"," ","2",":","8",".","2",".",
      "0"," ","a","m","d","6","4"," ","[","i","n","s","t","a","l","l","e",
      "d","]">>
PkgHtopLine == <<"h","t","o","p","/","s","t","a","b","l","e">>
PipHeaderLine ==
    <<"P","a","c","k","a","g","e"," "," "," "," ","V","e","r","s","i","o",
      "n">>
PipSeparatorLine ==
    <<"-","-","-","-","-","-","-"," ","-","-","-","-","-","-","-">>
PipRowLine == <<"r","e","q","u","e","s","t","s"," ","2",".","3","1",".","0">>
NoVersionLine == <<"v","i","m","/">>
BlankVersionLine == <<"v","i","m","/"," ","a","m","d","6","4">>

SampleLines ==
    {AptVimLine, PkgHtopLine, PipHeaderLine, PipSeparatorLine, PipRowLine,
     NoVersionLine, BlankVersionLine}

\* The listings of 1 to n sample lines.
RECURSIVE sample_listings(_)
sample_listings(n) ==
    IF n = 0 THEN {}
    ELSE {<<l>> : l \in SampleLines}
         \cup {Append(t, l) : t \in sample_listings(n - 1), l \in SampleLines}

\* The listings a parser is applied to, each a sequence of lines: one short
\* line, or sample lines.
ParseInputs ==
    {<<l>> : l \in short_lines(MaxLineLen)} \cup sample_listings(MaxTextLines)

\* The stdout of a listing: each line ended by a newline.
RECURSIVE raw_text(_)
raw_text(ls) ==
    IF ls = <<>> THEN <<>> ELSE ls[1] \o <<"\n">> \o raw_text(Tail(ls))

\* No program runs: the variables of the program stay as they are here.
InitParse ==
    /\ parsing \in [stage : {"input"}, pm : {"Pkg", "Apt", "Pip"},
                    input : ParseInputs, out : {<<>>}]
    /\ items = <<>>
    /\ state = None
    /\ package_manager = "Pkg"
    /\ should_exit = FALSE
    /\ pc = "parse"
    /\ panic = ""
    /\ command = <<>>
    /\ output = [ok |-> TRUE, stdout |-> <<>>]
    /\ detail = <<>>
    /\ last_ops = <<>>
    /\ next_run = NoRun
    /\ pm_hist = <<>>
    /\ event = NoEvent
    /\ spawned = <<>>
    /\ redraws = 0

\* The parse of load: the stdout is decoded, cut into lines, and the lines
\* are parsed by the parser of the package manager.
Parse ==
    /\ parsing.stage = "input"
    /\ parsing' =
         [parsing EXCEPT
            !.stage = "parsed",
            !.out = parse_lines(parsing.pm,
                                lines(from_utf8_lossy(raw_text(parsing.input))))]
    /\ UNCHANGED <<catalog, should_exit, pc, panic, command, output, detail,
                   history, event, spawned, redraws>>

SpecParse == InitParse /\ [][Parse]_vars

(***************************************************************************)
(* The claims.                                                             *)
(***************************************************************************)

\* The catalog operation the loop called last.
Last == last_ops[Len(last_ops)]
Called(op) == last_ops # <<>> /\ Last.op = op
Navigation == {"next", "previous", "first", "last"}

\* C1: in every reachable state the selection is None exactly when items is
\* empty, and otherwise an index of items.
C1_SelectionInRange ==
    /\ state = None <=> items = <<>>
    /\ state # None => 0 <= state[1] /\ state[1] < Len(items)

\* C2: no redraw panics on the indexing of items by the selection: a redraw
\* shows "No package selected" or reads items within range, and the loop goes
\* on.
C2_RedrawNeverPanics == panic # IndexOutOfBounds

\* C3: on an empty catalog each navigation operation is a no-op: after it
\* the selection is what it was before, None.
C3_NavigationNoOpWhenEmpty ==
    (last_ops # <<>> /\ Last.op \in Navigation /\ items = <<>>)
        => state = Last.before /\ state = None

\* C4: a listing command that could not be launched ends the process with
\* the panic of its expect(): the loop never runs on with the result of a
\* failed launch.
C4_LaunchFailureIsFatal ==
    ~output.ok =>
        /\ pc = "panicked"
        /\ \E pm \in {"Pkg", "Apt", "Pip"} :
              command = list_command(pm) /\ panic = expect_message(pm)

\* C4 happens: a toggle to Apt whose listing command could not be launched.
C4_Witness ==
    /\ ~output.ok
    /\ command = <<"apt", "list", "--installed">>
    /\ package_manager = "Pkg"
    /\ pc = "panicked"

\* C5: while there is a catalog, its items are the parse, by the parser of
\* package_manager, of the output of package_manager's listing command, and
\* after a toggle the selection is 0 for a non-empty catalog and None for an
\* empty one, whatever it was before.
C5_BackendProducedItems ==
    /\ pc # "panicked" =>
          /\ output.ok
          /\ command = list_command(package_manager)
          /\ items = parse_lines(package_manager,
                                 lines(from_utf8_lossy(output.stdout)))
    /\ Called("toggle") => state = IF items # <<>> THEN Some(0) ELSE None

\* C5 happens: a toggle from a catalog with index 2 selected to a non-empty
\* catalog.
C5_Witness ==
    /\ Called("toggle")
    /\ Last.before = Some(2)
    /\ package_manager = "Pip"
    /\ Len(items) = 2
    /\ state = Some(0)

\* C6: each toggle moves package_manager one step along Pkg -> Apt -> Pip ->
\* Pkg, and three toggles in a row bring it back.
C6_ToggleCycle ==
    /\ pm_hist # <<>> =>
          <<pm_hist[Len(pm_hist)], package_manager>>
              \in {<<"Pkg", "Apt">>, <<"Apt", "Pip">>, <<"Pip", "Pkg">>}
    /\ Len(pm_hist) = 3 => package_manager = pm_hist[1]

\* C6 happens: three toggles that started from Apt.
C6_Witness ==
    /\ Len(pm_hist) = 3
    /\ pm_hist[1] = "Apt"
    /\ package_manager = "Apt"

\* C7: on a catalog of n >= 1 items with index i selected, select_next
\* selects i + 1 when i < n - 1 and 0 when i = n - 1.
C7_SelectNextWraps ==
    (Called("next") /\ Len(items) >= 1) =>
        /\ Last.before # None
        /\ state = Some(IF Last.before[1] < Len(items) - 1
                        THEN Last.before[1] + 1 ELSE 0)

\* C7 happens: select_next on the last of three items.
C7_Witness ==
    /\ Called("next")
    /\ Len(items) = 3
    /\ Last.before = Some(2)
    /\ state = Some(0)

\* C8: on a catalog of n >= 1 items with index i selected, select_previous
\* selects i - 1 when i > 0 and n - 1 when i = 0.
C8_SelectPreviousWraps ==
    (Called("previous") /\ Len(items) >= 1) =>
        /\ Last.before # None
        /\ state = Some(IF Last.before[1] > 0
                        THEN Last.before[1] - 1 ELSE Len(items) - 1)

\* C8 happens: select_previous on the first of three items.
C8_Witness ==
    /\ Called("previous")
    /\ Len(items) = 3
    /\ Last.before = Some(0)
    /\ state = Some(2)

\* C9: on a non-empty catalog, select_next and then select_previous, or
\* select_previous and then select_next, leave the selection as it was before
\* the two calls.
C9_NextPreviousIdentity ==
    (Len(last_ops) = 2 /\ Len(items) >= 1) =>
        /\ Opposite(last_ops[1].op, last_ops[2].op)
        /\ state = last_ops[1].before

\* C9 happens: select_next from the last of three items, which wraps, and
\* then select_previous.
C9_Witness ==
    /\ Len(last_ops) = 2
    /\ last_ops[1].op = "next"
    /\ last_ops[2].op = "previous"
    /\ Len(items) = 3
    /\ last_ops[1].before = Some(2)
    /\ state = Some(2)

\* C10: on a catalog of n >= 1 items, n calls of select_next in a row bring
\* the selection back to what it was before the first.
C10_NextCycle ==
    (Len(items) >= 1 /\ next_run.count = Len(items)) => state = next_run.start

\* C10 happens: three calls of select_next on three items, from index 1.
C10_Witness ==
    /\ Len(items) = 3
    /\ next_run.count = 3
    /\ next_run.start = Some(1)
    /\ state = Some(1)

\* C11: on a catalog of n >= 1 items, whatever was selected, select_first
\* selects 0 and select_last selects n - 1, so select_first and then
\* select_last gives n - 1.
C11_FirstAndLast ==
    /\ (Called("first") /\ Len(items) >= 1) => state = Some(0)
    /\ (Called("last") /\ Len(items) >= 1) => state = Some(Len(items) - 1)

\* C11 happens: select_first and then select_last on five items.
C11_Witness ==
    /\ Called("last")
    /\ Last.after_first
    /\ Len(items) = 5
    /\ state = Some(4)

\* C12: a redraw with nothing selected shows exactly "No package selected"
\* and spawns no external command.
C12_NoSelectionNoProcess ==
    (pc = "read" /\ state = None) =>
        /\ detail = NoPackageSelected
        /\ spawned = <<>>

\* C12 happens: a redraw of an empty apt catalog, whose listing printed a
\* line.
C12_Witness ==
    /\ pc = "read"
    /\ state = None
    /\ package_manager = "Apt"
    /\ output.stdout # <<>>
    /\ detail = NoPackageSelected

\* The text the details pane is to show for the result of a show command.
C13_Expected(res) ==
    IF ~res.ok THEN FailedToFetch
    ELSE IF res.stdout = <<>> THEN NoDetailsAvailable
    ELSE from_utf8_lossy(res.stdout)

\* C13: a redraw with a package selected shows "Failed to fetch package
\* details" when the show command could not be launched, "No details
\* available" when its stdout is empty and the decoded stdout otherwise; the
\* redraw leaves the catalog and should_exit as they were and the loop
\* running.
C13_DetailFallbacks ==
    /\ [](pc = "read" /\ state # None =>
            /\ Len(spawned) = 1
            /\ detail = C13_Expected(spawned[1].result))
    /\ [][(pc = "draw" /\ state # None /\ state[1] < Len(items)) =>
            /\ pc' \in {"read", "io_error"}
            /\ UNCHANGED <<items, state, package_manager, should_exit>>]_vars

\* C13 happens: the show command of the second package could not be launched.
C13_Witness ==
    /\ pc = "read"
    /\ state = Some(1)
    /\ Len(spawned) = 1
    /\ ~spawned[1].result.ok
    /\ detail = FailedToFetch

\* The events the table of the interaction loop names.
C15_Table(ev) ==
    IF ev.type = "Key" /\ ev.kind = "Press"
    THEN CASE ev.code \in {"q", "Esc"} -> "quit"
           [] ev.code \in {"Down", "j"} -> "move-down"
           [] ev.code \in {"Up", "k"} -> "move-up"
           [] ev.code \in {"Home", "g"} -> "jump-first"
           [] ev.code \in {"End", "G"} -> "jump-last"
           [] ev.code = "Tab" -> "cycle-backend"
           [] OTHER -> "other"
    ELSE "other"

\* C14: a quit or escape key press ends the loop, should_exit is set exactly
\* when the loop has ended with Ok, and after that no step is taken: no
\* event is read, no operation called, nothing drawn or spawned.
C14_ExitedIsTerminal ==
    /\ should_exit <=> pc = "exited"
    /\ (event # NoEvent /\ C15_Table(event) = "quit") => pc = "exited"
    /\ pc = "exited" => ~ENABLED Next

\* C14 happens: the loop ended by Escape on a non-empty catalog.
C14_Witness ==
    /\ pc = "exited"
    /\ should_exit
    /\ event.code = "Esc"
    /\ items # <<>>

\* What the table's transition for the event class t does in a step.
C15_Effect(t) ==
    CASE t = "quit" ->
           should_exit' /\ pc' = "exited" /\ UNCHANGED catalog
      [] t = "move-down" ->
           /\ state' = select_next(items, state)
           /\ pc' = "draw"
           /\ UNCHANGED <<items, package_manager, should_exit>>
      [] t = "move-up" ->
           /\ state' = select_previous(items, state)
           /\ pc' = "draw"
           /\ UNCHANGED <<items, package_manager, should_exit>>
      [] t = "jump-first" ->
           /\ state' = select_first(items, state)
           /\ pc' = "draw"
           /\ UNCHANGED <<items, package_manager, should_exit>>
      [] t = "jump-last" ->
           /\ state' = select_last(items, state)
           /\ pc' = "draw"
           /\ UNCHANGED <<items, package_manager, should_exit>>
      [] t = "cycle-backend" ->
           /\ UNCHANGED should_exit
           /\ \/ /\ pc' = "draw"
                 /\ package_manager' = new_manager(package_manager)
                 /\ items' = load(package_manager', output').items
                 /\ state' = load(package_manager', output').state
              \/ pc' = "panicked" /\ UNCHANGED catalog
      [] t = "other" ->
           pc' = "draw" /\ UNCHANGED <<catalog, should_exit>>

\* C15: a step that reads an event does what the table maps the event to
\* and nothing else, an event of no other class changing nothing; an event
\* is read only in a step that follows a redraw, and a redraw reads none.
C15_OneTransitionPerEvent ==
    [][/\ (pc = "read" /\ pc' # "io_error") =>
             event' \in Events /\ C15_Effect(C15_Table(event'))
       /\ pc' = "read" => pc = "draw"
       /\ event' # NoEvent => pc = "read"]_vars

\* C15 happens: 'j' was pressed and select_next moved the selection to 1.
C15_Witness ==
    /\ event = [type |-> "Key", code |-> "j", kind |-> "Press"]
    /\ Called("next")
    /\ pc = "draw"
    /\ state = Some(1)

\* The commands a step may spawn for the listing.
C20_ListCommands == {list_command(pm) : pm \in {"Pkg", "Apt", "Pip"}}

\* C20: every redraw with a package selected spawns exactly one show
\* command, of the active package manager for the name of the selected
\* package, also when no operation was called since the last redraw; no
\* step spawns more than one command, and a step that reads an event spawns
\* at most the one listing command of a toggle.
C20_NoCaching ==
    /\ Len(spawned) <= 1
    /\ (pc = "read" /\ state # None) =>
          /\ Len(spawned) = 1
          /\ spawned[1].argv = show_command(package_manager,
                                            items[state[1] + 1].name)
    /\ (event # NoEvent /\ spawned # <<>>) =>
          /\ C15_Table(event) = "cycle-backend"
          /\ spawned[1].argv \in C20_ListCommands

\* C20 happens: a second redraw with no operation called since the first,
\* which spawned the show command again.
C20_Witness ==
    /\ pc = "read"
    /\ redraws = 2
    /\ state = Some(1)
    /\ Len(spawned) = 1
    /\ spawned[1].argv[2] = "show"

\* A parser was applied to the listing of lines ls.
Parsed(pm) == parsing.stage = "parsed" /\ parsing.pm = pm

\* C16: the Apt parser turns the line "vim/stable 2:8.2.0 amd64 [installed]"
\* into one package of name "vim" and version "2:8.2.0".
C16_AptVimScenario ==
    (Parsed("Apt") /\ parsing.input = <<AptVimLine>>) =>
        parsing.out = <<[name |-> <<"v","i","m">>, version |-> <<"2",":","8",".","2",".","0">>]>>

\* The first whitespace-separated token of a text, empty when it has none.
C17_FirstToken(t) ==
    LET starts == {k \in 1..Len(t) : ~is_whitespace(t[k])}
    IN  IF starts = {} THEN <<>>
        ELSE LET b == CHOOSE k \in starts : \A j \in starts : k <= j
                 e == CHOOSE k \in b..Len(t) :
                        /\ \A j \in b..k : ~is_whitespace(t[j])
                        /\ k = Len(t) \/ is_whitespace(t[k + 1])
             IN  SubSeq(t, b, e)

\* Whether the Apt parser is to emit a package for a line: the line holds a
\* '/' and the first token of the field after the first '/' is not empty.
C17_Emits(l) ==
    /\ \E k \in 1..Len(l) : l[k] = "/"
    /\ LET k == CHOOSE i \in 1..Len(l) :
                  l[i] = "/" /\ \A j \in 1..(i - 1) : l[j] # "/"
           rest == SubSeq(l, k + 1, Len(l))
           stop == IF \E j \in 1..Len(rest) : rest[j] = "/"
                   THEN (CHOOSE i \in 1..Len(rest) :
                           rest[i] = "/" /\ \A j \in 1..(i - 1) : rest[j] # "/") - 1
                   ELSE Len(rest)
       IN  C17_FirstToken(SubSeq(rest, 1, stop)) # <<>>

\* C17: the Apt parser emits a package for a line only if the line holds a
\* '/' and the first token after it is not empty, so no package it emits has
\* an empty version.
C17_AptNoEmptyVersion ==
    Parsed("Apt") =>
        /\ \A k \in 1..Len(parsing.out) : parsing.out[k].version # <<>>
        /\ (Len(parsing.input) = 1 /\ parsing.out # <<>>) =>
              C17_Emits(parsing.input[1])

\* The package the Pkg parser is to emit for a line, if any: the name is what
\* precedes the first '/', the version what lies between the first '/' and
\* the second, or the end of the line.
C18_Expected(l) ==
    LET slashes == {k \in 1..Len(l) : l[k] = "/"}
    IN  IF slashes = {} THEN <<>>
        ELSE LET k1 == CHOOSE k \in slashes : \A j \in slashes : k <= j
                 later == slashes \ {k1}
                 k2 == IF later = {} THEN Len(l) + 1
                       ELSE CHOOSE k \in later : \A j \in later : k <= j
             IN  <<[name |-> SubSeq(l, 1, k1 - 1),
                    version |-> SubSeq(l, k1 + 1, k2 - 1)]>>

RECURSIVE C18_ExpectedAll(_)
C18_ExpectedAll(ls) ==
    IF ls = <<>> THEN <<>>
    ELSE C18_Expected(ls[1]) \o C18_ExpectedAll(Tail(ls))

\* C18: the Pkg parser emits a package exactly for the lines that hold a '/',
\* with the name before the first '/' and the version between the first and
\* the second '/' (or the end of the line), in the order of the lines.
C18_PkgParser ==
    Parsed("Pkg") => parsing.out = C18_ExpectedAll(parsing.input)

\* C18 happens: the line "htop/stable" was parsed.
C18_Witness ==
    /\ Parsed("Pkg")
    /\ parsing.input = <<PkgHtopLine>>
    /\ parsing.out = <<[name |-> <<"h","t","o","p">>, version |-> <<"s","t","a","b","l","e">>]>>

\* The whitespace-separated fields of a line, by their first characters.
C19_Fields(l) ==
    LET starts == {k \in 1..Len(l) :
                     ~is_whitespace(l[k]) /\ (k = 1 \/ is_whitespace(l[k - 1]))}
        nth[n \in 1..Cardinality(starts)] ==
            CHOOSE k \in starts : Cardinality({j \in starts : j < k}) = n - 1
        stop(b) == CHOOSE k \in b..Len(l) :
                     /\ \A j \in b..k : ~is_whitespace(l[j])
                     /\ k = Len(l) \/ is_whitespace(l[k + 1])
    IN  [n \in 1..Cardinality(starts) |-> SubSeq(l, nth[n], stop(nth[n]))]

\* Whether pat occurs in l.
C19_Holds(l, pat) ==
    \E b \in 1..Len(l) :
        /\ b + Len(pat) - 1 <= Len(l)
        /\ \A j \in 1..Len(pat) : l[b + j - 1] = pat[j]

\* The package the Pip parser is to emit for a line, if any.
C19_Expected(l) ==
    IF \/ C19_Holds(l, <<"P","a","c","k","a","g","e">>)
       \/ C19_Holds(l, <<"-","-","-">>)
    THEN <<>>
    ELSE LET f == C19_Fields(l)
         IN  IF Len(f) < 2 THEN <<>> ELSE <<[name |-> f[1], version |-> f[2]]>>

RECURSIVE C19_ExpectedAll(_)
C19_ExpectedAll(ls) ==
    IF ls = <<>> THEN <<>>
    ELSE C19_Expected(ls[1]) \o C19_ExpectedAll(Tail(ls))

\* C19: the Pip parser drops the lines that hold "Package" or "---" and the
\* lines of fewer than two fields, and emits the first two fields of every
\* other line, in the order of the lines; the header row, the separator row
\* and the row "requests 2.31.0" give the one package requests 2.31.0.
C19_PipParser ==
    Parsed("Pip") =>
        /\ parsing.out = C19_ExpectedAll(parsing.input)
        /\ parsing.input = <<PipHeaderLine, PipSeparatorLine, PipRowLine>> =>
              parsing.out = <<[name |-> <<"r","e","q","u","e","s","t","s">>, version |-> <<"2",".","3","1",".","0">>]>>

\* C19 happens: the header row, the separator row and one package row were
\* parsed.
C19_Witness ==
    /\ Parsed("Pip")
    /\ parsing.input = <<PipHeaderLine, PipSeparatorLine, PipRowLine>>
    /\ Len(parsing.out) = 1

====
